---- MODULE Spec2Model ----
(***************************************************************************)
(* A model of scripts/seo-improvements.js: four passes over the live       *)
(* document tree (alt text, breadcrumb structured data, heading, meta      *)
(* tags) and the DOMContentLoaded handler that runs them.                  *)
(*                                                                         *)
(* A JavaScript string is a sequence of one-character strings, so that     *)
(* trim, split and the regular-expression replacements are computed as the *)
(* code computes them.  The document is a table of nodes; a node id is its *)
(* index in the table, node 1 is the document element.                     *)
(***************************************************************************)
EXTENDS Integers, Sequences, FiniteSets, TLC

\* ------------------------------------------------------------------ bounds
\* how many calls of a pass a behaviour makes at most
MaxCalls == 4

\* ----------------------------------------------------------------- strings
Lowers == <<"a","b","c","d","e","f","g","h","i","j","k","l","m",
            "n","o","p","q","r","s","t","u","v","w","x","y","z">>
Uppers == <<"A","B","C","D","E","F","G","H","I","J","K","L","M",
            "N","O","P","Q","R","S","T","U","V","W","X","Y","Z">>
Digits == <<"0","1","2","3","4","5","6","7","8","9">>

Range(s) == { s[i] : i \in 1..Len(s) }

IsLower(c) == c \in Range(Lowers)
IsUpper(c) == c \in Range(Uppers)
\* \w of a JavaScript regular expression
IsWordChar(c) == IsLower(c) \/ IsUpper(c) \/ c \in Range(Digits) \/ c = "_"
IsSpace(c) == c = " "

\* String.prototype.toUpperCase on one character
toUpperCase(c) ==
  IF IsLower(c) THEN Uppers[CHOOSE i \in 1..Len(Lowers) : Lowers[i] = c] ELSE c

RECURSIVE TrimStart(_)
TrimStart(s) ==
  IF s = <<>> THEN <<>>
  ELSE IF IsSpace(Head(s)) THEN TrimStart(Tail(s)) ELSE s

RECURSIVE TrimEnd(_)
TrimEnd(s) ==
  IF s = <<>> THEN <<>>
  ELSE IF IsSpace(s[Len(s)]) THEN TrimEnd(SubSeq(s, 1, Len(s) - 1)) ELSE s

\* String.prototype.trim
trim(s) == TrimEnd(TrimStart(s))

\* s.split(c).pop() : what follows the last occurrence of the character c
AfterLast(s, c) ==
  LET P == { i \in 1..Len(s) : s[i] = c }
  IN  IF P = {} THEN s
      ELSE LET m == CHOOSE i \in P : \A j \in P : j <= i
           IN  SubSeq(s, m + 1, Len(s))

\* s.split(c)[0] : what precedes the first occurrence of the character c
BeforeFirst(s, c) ==
  LET P == { i \in 1..Len(s) : s[i] = c }
  IN  IF P = {} THEN s
      ELSE LET m == CHOOSE i \in P : \A j \in P : i <= j
           IN  SubSeq(s, 1, m - 1)

\* s.replace(/[-_]/g, ' ')
ReplaceSeparators(s) ==
  [ i \in 1..Len(s) |-> IF s[i] \in {"-", "_"} THEN " " ELSE s[i] ]

\* s.replace(/([a-z])([A-Z])/g, '$1 $2') : matches are found left to right
\* and do not overlap
RECURSIVE SplitCamel(_)
SplitCamel(s) ==
  IF Len(s) < 2 THEN s
  ELSE IF IsLower(s[1]) /\ IsUpper(s[2])
       THEN <<s[1], " ", s[2]>> \o SplitCamel(SubSeq(s, 3, Len(s)))
       ELSE <<s[1]>> \o SplitCamel(Tail(s))

\* s.replace(/\b\w/g, c => c.toUpperCase())
CapitalizeWords(s) ==
  [ i \in 1..Len(s) |->
      IF IsWordChar(s[i]) /\ (i = 1 \/ ~IsWordChar(s[i - 1]))
      THEN toUpperCase(s[i]) ELSE s[i] ]

\* img.src.split('/').pop().split('.')[0]
Filename(src) == BeforeFirst(AfterLast(src, "/"), ".")

\* the readable text made from a file name
FilenameLabel(filename) == CapitalizeWords(SplitCamel(ReplaceSeparators(filename)))

\* the last index at which sep occurs in s, 0 when it does not occur
LastIndexOf(s, sep) ==
  LET P == { i \in 1..(Len(s) - Len(sep) + 1) : SubSeq(s, i, i + Len(sep) - 1) = sep }
  IN  IF P = {} THEN 0 ELSE CHOOSE i \in P : \A j \in P : j <= i

\* the first index at which sep occurs in s, 0 when it does not occur
IndexOf(s, sep) ==
  LET P == { i \in 1..(Len(s) - Len(sep) + 1) : SubSeq(s, i, i + Len(sep) - 1) = sep }
  IN  IF P = {} THEN 0 ELSE CHOOSE i \in P : \A j \in P : i <= j

TitleSeparator == <<" ","-"," ">>

\* as FirstTitlePart, but the title is cut at its last separator
FirstTitlePart_lastSeparator(title) ==
  LET k == LastIndexOf(title, <<" ","-"," ">>)
  IN  IF k = 0 THEN title ELSE SubSeq(title, 1, k - 1)

\* const [title] = document.title.split(' - ')
FirstTitlePart(title) ==
  LET k == IndexOf(title, TitleSeparator)
  IN  IF k = 0 THEN title ELSE SubSeq(title, 1, k - 1)

ImageRelatedTo == <<"I","m","a","g","e"," ","r","e","l","a","t","e","d"," ","t","o"," ">>
WebsiteDescription == <<"W","e","b","s","i","t","e"," ","D","e","s","c","r","i","p","t","i","o","n">>
ViewportContent == <<"w","i","d","t","h","=","d","e","v","i","c","e","-","w","i","d","t","h",","," ","i","n","i","t","i","a","l","-","s","c","a","l","e","=","1">>

\* --------------------------------------------------------------- document
\* A node of the tree: an element (tag, attributes, child ids) or a text
\* node (tag "#text", data).  json is the value that was serialised into a
\* script element's text, <<>> for every other node.
NoAttrs == [ k \in {} |-> <<>> ]

Element(tag, attrs, kids) ==
  [ tag |-> tag, attrs |-> attrs, kids |-> kids, data |-> <<>>, json |-> <<>> ]

Text(s) ==
  [ tag |-> "#text", attrs |-> NoAttrs, kids |-> <<>>, data |-> s, json |-> <<>> ]

hasAttribute(node, name) == name \in DOMAIN node.attrs

\* the reflected property of an attribute: '' when the attribute is absent
Property(node, name) == IF hasAttribute(node, name) THEN node.attrs[name] ELSE <<>>

RECURSIVE Subtree(_, _), SubtreeAll(_, _)
\* the node n and its descendants, in tree order
Subtree(d, n) == <<n>> \o SubtreeAll(d, d[n].kids)
SubtreeAll(d, ks) ==
  IF ks = <<>> THEN <<>> ELSE Subtree(d, Head(ks)) \o SubtreeAll(d, Tail(ks))

\* the descendants of n, in tree order
Descendants(d, n) == SubtreeAll(d, d[n].kids)

\* every node of the document, in tree order
DocumentOrder(d) == IF d = <<>> THEN <<>> ELSE Subtree(d, 1)

\* Node.textContent : the data of the text nodes under n, in tree order
RECURSIVE textContent(_, _), TextOfAll(_, _)
textContent(d, n) ==
  IF d[n].tag = "#text" THEN d[n].data ELSE TextOfAll(d, d[n].kids)
TextOfAll(d, ks) ==
  IF ks = <<>> THEN <<>> ELSE textContent(d, Head(ks)) \o TextOfAll(d, Tail(ks))

\* Node.parentElement : 0 stands for null
parentElement(d, n) ==
  LET P == { p \in 1..Len(d) : n \in Range(d[p].kids) }
  IN  IF P = {} THEN 0 ELSE CHOOSE p \in P : TRUE

\* the first id of the sequence ids whose node has the tag, 0 for null
FirstWithTag(d, ids, tag) ==
  LET P == { i \in 1..Len(ids) : d[ids[i]].tag = tag }
  IN  IF P = {} THEN 0 ELSE ids[CHOOSE i \in P : \A j \in P : i <= j]

\* the ids of the sequence ids whose node has the tag, in order
RECURSIVE AllWithTag(_, _, _)
AllWithTag(d, ids, tag) ==
  IF ids = <<>> THEN <<>>
  ELSE (IF d[Head(ids)].tag = tag THEN <<Head(ids)>> ELSE <<>>)
       \o AllWithTag(d, Tail(ids), tag)

\* Element.firstElementChild
firstElementChild(d, n) ==
  LET P == { i \in 1..Len(d[n].kids) : d[d[n].kids[i]].tag # "#text" }
  IN  IF P = {} THEN 0 ELSE d[n].kids[CHOOSE i \in P : \A j \in P : i <= j]

\* strip and collapse ASCII whitespace
RECURSIVE Collapse(_)
Collapse(s) ==
  IF Len(s) < 2 THEN s
  ELSE IF IsSpace(s[1]) /\ IsSpace(s[2]) THEN Collapse(Tail(s))
       ELSE <<s[1]>> \o Collapse(Tail(s))

\* the data of the text nodes that are children of n
RECURSIVE ChildText(_, _)
ChildText(d, ks) ==
  IF ks = <<>> THEN <<>>
  ELSE (IF d[Head(ks)].tag = "#text" THEN d[Head(ks)].data ELSE <<>>)
       \o ChildText(d, Tail(ks))

\* document.title : the text of the first title element of the document
title(d) ==
  LET t == FirstWithTag(d, DocumentOrder(d), "title")
  IN  IF t = 0 THEN <<>> ELSE trim(Collapse(ChildText(d, d[t].kids)))

\* document.head : the first head element that is a child of the html element
head(d) ==
  IF d = <<>> \/ d[1].tag # "html" THEN 0 ELSE FirstWithTag(d, d[1].kids, "head")

\* Element.setAttribute
setAttribute(d, n, name, value) ==
  [ d EXCEPT ![n].attrs = (name :> value) @@ @ ]

\* createElement and textContent = s : the new element and its text node
\* take the next free ids; an empty string creates no text node
NewElement(d, tag, attrs, s, json) ==
  LET id == Len(d) + 1
  IN  IF s = <<>>
      THEN <<[ Element(tag, attrs, <<>>) EXCEPT !.json = json ]>>
      ELSE <<[ Element(tag, attrs, <<id + 1>>) EXCEPT !.json = json ], Text(s)>>

\* Node.appendChild of a new element
appendChild(d, p, tag, attrs, s, json) ==
  [ d EXCEPT ![p].kids = Append(@, Len(d) + 1) ] \o NewElement(d, tag, attrs, s, json)

\* Node.insertBefore of a new element, before the child ref of p
insertBefore(d, p, ref, tag, attrs, s, json) ==
  LET ks == d[p].kids
      k  == CHOOSE i \in 1..Len(ks) : ks[i] = ref
  IN  [ d EXCEPT ![p].kids = SubSeq(ks, 1, k - 1) \o <<Len(d) + 1>> \o SubSeq(ks, k, Len(ks)) ]
      \o NewElement(d, tag, attrs, s, json)

\* ------------------------------------------------------- addAltTextToImages
\* as ImagesWithoutAlt, but the selector is 'img'
ImagesWithoutAlt_everyImage(d) == AllWithTag(d, DocumentOrder(d), "img")

\* document.querySelectorAll('img:not([alt])')
ImagesWithoutAlt(d) ==
  LET imgs == AllWithTag(d, DocumentOrder(d), "img")
      NoAlt(n) == ~hasAttribute(d[n], "alt")
  IN  SelectSeq(imgs, NoAlt)

\* the text of the parent element, '' when it gives none
ParentText(d, img) ==
  LET p == parentElement(d, img)
  IN  IF p # 0 /\ trim(textContent(d, p)) # <<>> THEN trim(textContent(d, p)) ELSE <<>>

\* the text made from the file name of img.src, '' when it gives none
SrcText(d, img) ==
  LET src == Property(d[img], "src")
  IN  IF src # <<>> /\ Filename(src) # <<>> THEN FilenameLabel(Filename(src)) ELSE <<>>

\* the generic text based on the page title, '' when the title is empty
TitleText(d) == IF title(d) # <<>> THEN ImageRelatedTo \o title(d) ELSE <<>>

\* as AltTextFor, but the file name is tried before the parent's text
AltTextFor_srcFirst(d, img) ==
  LET a1 == SrcText(d, img)
      a2 == IF a1 = <<>> THEN ParentText(d, img) ELSE a1
      a3 == IF a2 = <<>> THEN TitleText(d) ELSE a2
  IN  a3

\* the value of altText at the end of the callback of images.forEach
AltTextFor(d, img) ==
  LET a1 == ParentText(d, img)
      a2 == IF a1 = <<>> THEN SrcText(d, img) ELSE a1
      a3 == IF a2 = <<>> THEN TitleText(d) ELSE a2
  IN  a3

\* one call of the callback of images.forEach
AltCallback(d, img) ==
  IF AltTextFor(d, img) # <<>> THEN setAttribute(d, img, "alt", AltTextFor(d, img)) ELSE d

RECURSIVE AltForEach(_, _)
AltForEach(d, imgs) ==
  IF imgs = <<>> THEN d ELSE AltForEach(AltCallback(d, Head(imgs)), Tail(imgs))

\* as addAltTextToImages, but the selector is 'img' and the text is appended
\* to the alt text an image has
RECURSIVE AltForEach_append(_, _)
AltForEach_append(d, imgs) ==
  IF imgs = <<>> THEN d
  ELSE AltForEach_append(
         setAttribute(d, Head(imgs), "alt",
                      Property(d[Head(imgs)], "alt") \o AltTextFor(d, Head(imgs))),
         Tail(imgs))
addAltTextToImages_append(d) == AltForEach_append(d, AllWithTag(d, DocumentOrder(d), "img"))

\* the document after one run of the pass
addAltTextToImages(d) == AltForEach(d, ImagesWithoutAlt(d))

\* ---------------------------------------------- addBreadcrumbStructuredData
\* document.querySelector('.breadcrumb') : 0 stands for null
BreadcrumbContainer(d) ==
  LET ids == DocumentOrder(d)
      P == { i \in 1..Len(ids) : hasAttribute(d[ids[i]], "class")
                                  /\ d[ids[i]].attrs["class"] = "breadcrumb" }
  IN  IF P = {} THEN 0 ELSE ids[CHOOSE i \in P : \A j \in P : i <= j]

\* breadcrumbs.querySelectorAll('li')
BreadcrumbItems(d) ==
  IF BreadcrumbContainer(d) = 0 THEN <<>>
  ELSE AllWithTag(d, Descendants(d, BreadcrumbContainer(d)), "li")

\* as BreadcrumbRecord, but the text of the link is not trimmed
BreadcrumbRecord_untrimmed(d, item, index) ==
  LET link == FirstWithTag(d, Descendants(d, item), "a")
  IN  IF link # 0
      THEN << [ type |-> "ListItem", position |-> index + 1,
                name |-> textContent(d, link),
                item |-> Property(d[link], "href") ] >>
      ELSE IF trim(textContent(d, item)) # <<>>
      THEN << [ type |-> "ListItem", position |-> index + 1,
                name |-> trim(textContent(d, item)) ] >>
      ELSE <<>>

\* what the callback of breadcrumbItems.forEach pushes for the item at the
\* 0-based index: a sequence of no or one record
BreadcrumbRecord(d, item, index) ==
  LET link == FirstWithTag(d, Descendants(d, item), "a")
  IN  IF link # 0
      THEN << [ type |-> "ListItem", position |-> index + 1,
                name |-> trim(textContent(d, link)),
                item |-> Property(d[link], "href") ] >>
      ELSE IF trim(textContent(d, item)) # <<>>
      THEN << [ type |-> "ListItem", position |-> index + 1,
                name |-> trim(textContent(d, item)) ] >>
      ELSE <<>>

\* as BreadcrumbForEach, but a record is numbered by its place among the
\* records
RECURSIVE BreadcrumbForEach_renumbered(_, _, _)
BreadcrumbForEach_renumbered(d, items, index) ==
  IF index >= Len(items) THEN <<>>
  ELSE LET r == BreadcrumbRecord(d, items[index + 1], index)
           before == { i \in 1..index : BreadcrumbRecord(d, items[i], i - 1) # <<>> }
       IN  (IF r = <<>> THEN <<>>
            ELSE << [ r[1] EXCEPT !.position = Cardinality(before) + 1 ] >>)
           \o BreadcrumbForEach_renumbered(d, items, index + 1)

RECURSIVE BreadcrumbForEach(_, _, _)
BreadcrumbForEach(d, items, index) ==
  IF index >= Len(items) THEN <<>>
  ELSE BreadcrumbRecord(d, items[index + 1], index) \o BreadcrumbForEach(d, items, index + 1)

\* breadcrumbData.itemListElement after the forEach
itemListElement(d) == BreadcrumbForEach(d, BreadcrumbItems(d), 0)

RECURSIVE Decimal(_)
Decimal(n) == IF n < 10 THEN <<Digits[n + 1]>> ELSE Decimal(n \div 10) \o <<Digits[(n % 10) + 1]>>

\* a JSON string literal
RECURSIVE Escape(_)
Escape(s) ==
  IF s = <<>> THEN <<>>
  ELSE (IF Head(s) \in {"\"", "\\"} THEN <<"\\", Head(s)>> ELSE <<Head(s)>>) \o Escape(Tail(s))
Quote(s) == <<"\"">> \o Escape(s) \o <<"\"">>

JsonListHead == <<"{","\"","@","c","o","n","t","e","x","t","\"",":","\"","h","t","t","p","s",":","/","/","s","c","h","e","m","a",".","o","r","g","\"",",","\"","@","t","y","p","e","\"",":","\"","B","r","e","a","d","c","r","u","m","b","L","i","s","t","\"",",","\"","i","t","e","m","L","i","s","t","E","l","e","m","e","n","t","\"",":","[">>
JsonItemHead == <<"{","\"","@","t","y","p","e","\"",":","\"","L","i","s","t","I","t","e","m","\"",",","\"","p","o","s","i","t","i","o","n","\"",":">>
JsonName == <<",","\"","n","a","m","e","\"",":">>
JsonItem == <<",","\"","i","t","e","m","\"",":">>

StringifyRecord(r) ==
  JsonItemHead \o Decimal(r.position) \o JsonName \o Quote(r.name)
  \o (IF "item" \in DOMAIN r THEN JsonItem \o Quote(r.item) ELSE <<>>) \o <<"}">>

RECURSIVE StringifyRecords(_)
StringifyRecords(rs) ==
  IF rs = <<>> THEN <<>>
  ELSE StringifyRecord(Head(rs))
       \o (IF Tail(rs) = <<>> THEN <<>> ELSE <<",">> \o StringifyRecords(Tail(rs)))

\* JSON.stringify(breadcrumbData)
Stringify(rs) == JsonListHead \o StringifyRecords(rs) \o <<"]", "}">>

\* The outcome of one run of the pass: the document after it and whether the
\* run ended in a TypeError (document.head is null at the appendChild).
addBreadcrumbStructuredData(d) ==
  IF BreadcrumbContainer(d) = 0 THEN [ doc |-> d, fault |-> FALSE ]
  ELSE IF Len(BreadcrumbItems(d)) = 0 THEN [ doc |-> d, fault |-> FALSE ]
  ELSE IF Len(itemListElement(d)) = 0 THEN [ doc |-> d, fault |-> FALSE ]
  ELSE IF head(d) = 0 THEN [ doc |-> d, fault |-> TRUE ]
  ELSE [ doc |-> appendChild(d, head(d), "script", "type" :> "application/ld+json",
                             Stringify(itemListElement(d)), itemListElement(d)),
         fault |-> FALSE ]

\* -------------------------------------------------- improveHeadingStructure
HiddenStyle == "position:absolute;left:-9999px;height:1px;width:1px;overflow:hidden"

improveHeadingStructure(d) ==
  LET h1Elements == AllWithTag(d, DocumentOrder(d), "h1")
      mainElement == FirstWithTag(d, DocumentOrder(d), "main")
  IN  IF Len(h1Elements) = 0 /\ title(d) # <<>> /\ mainElement # 0
         /\ firstElementChild(d, mainElement) # 0
      THEN insertBefore(d, mainElement, firstElementChild(d, mainElement), "h1",
                        "style" :> HiddenStyle, FirstTitlePart(title(d)), <<>>)
      ELSE d

\* ------------------------------------------------------- addMissingMetaTags
\* as MetaNamed, but the query is made on document.body
MetaNamed_inBody(d, name) ==
  LET body == FirstWithTag(d, d[1].kids, "body")
      ids == IF body = 0 THEN <<>> ELSE AllWithTag(d, Descendants(d, body), "meta")
      P == { i \in 1..Len(ids) : hasAttribute(d[ids[i]], "name")
                                  /\ d[ids[i]].attrs["name"] = name }
  IN  IF P = {} THEN 0 ELSE ids[CHOOSE i \in P : \A j \in P : i <= j]

\* head.querySelector('meta[name="..."]') : 0 stands for null
MetaNamed(d, name) ==
  LET ids == AllWithTag(d, Descendants(d, head(d)), "meta")
      P == { i \in 1..Len(ids) : hasAttribute(d[ids[i]], "name")
                                  /\ d[ids[i]].attrs["name"] = name }
  IN  IF P = {} THEN 0 ELSE ids[CHOOSE i \in P : \A j \in P : i <= j]

AddViewport(d) ==
  IF MetaNamed(d, "viewport") = 0
  THEN appendChild(d, head(d), "meta",
                   ("name" :> "viewport") @@ ("content" :> ViewportContent), <<>>, <<>>)
  ELSE d

\* as AddDescription, but the content is the text of the first top-level
\* heading when there is one
AddDescription_fromHeading(d) ==
  LET h == FirstWithTag(d, DocumentOrder(d), "h1")
  IN  IF MetaNamed(d, "description") = 0
      THEN appendChild(d, head(d), "meta",
                       ("name" :> "description")
                       @@ ("content" :> (IF h # 0 THEN textContent(d, h)
                                         ELSE IF title(d) # <<>> THEN title(d)
                                         ELSE WebsiteDescription)),
                       <<>>, <<>>)
      ELSE d

AddDescription(d) ==
  IF MetaNamed(d, "description") = 0
  THEN appendChild(d, head(d), "meta",
                   ("name" :> "description")
                   @@ ("content" :> (IF title(d) # <<>> THEN title(d) ELSE WebsiteDescription)),
                   <<>>, <<>>)
  ELSE d

\* The outcome of one run of the pass: head.querySelector is a TypeError when
\* document.head is null.
addMissingMetaTags(d) ==
  IF head(d) = 0 THEN [ doc |-> d, fault |-> TRUE ]
  ELSE [ doc |-> AddDescription(AddViewport(d)), fault |-> FALSE ]

\* ------------------------------------------------------ starting documents
\* A starting document is written as a nested tree and numbered in tree
\* order.
Tree(tag, attrs, kids) == [ tag |-> tag, attrs |-> attrs, data |-> <<>>, kids |-> kids ]
Leaf(s) == [ tag |-> "#text", attrs |-> NoAttrs, data |-> s, kids |-> <<>> ]

RECURSIVE Flatten(_, _), FlattenAll(_, _)
\* the table of the nodes of the tree t, whose root gets the id base + 1
Flatten(t, base) ==
  LET r == FlattenAll(t.kids, base + 1)
  IN  << [ tag |-> t.tag, attrs |-> t.attrs, kids |-> r.ids, data |-> t.data, json |-> <<>> ] >>
      \o r.nodes
FlattenAll(ts, base) ==
  IF ts = <<>> THEN [ nodes |-> <<>>, ids |-> <<>> ]
  ELSE LET f == Flatten(Head(ts), base)
           r == FlattenAll(Tail(ts), base + Len(f))
       IN  [ nodes |-> f \o r.nodes, ids |-> <<base + 1>> \o r.ids ]

SrcCool == <<"/","i","/","m","y","-","c","o","o","l","_","I","m","a","g","e",".","p","n","g">>
SrcCamel == <<"/","i","/","f","o","o","B","a","r",".","m","i","n",".","j","p","g">>
SrcSlash == <<"/","i","/">>
SrcDot == <<"/",".","p","n","g">>

Titles == { <<>>, <<" ","H","o","m","e"," ">>, <<"B","u","y"," ","-"," ","A","c","m","e"," ","-"," ","C","o">> }

Breadcrumb == "class" :> "breadcrumb"

\* the example of the breadcrumb pass: two links and a plain text item
BodyExample ==
  << Tree("nav", Breadcrumb, <<
       Tree("ul", NoAttrs, <<
         Tree("li", NoAttrs, << Tree("a", "href" :> <<"/">>, << Leaf(<<"H","o","m","e">>) >>) >>),
         Tree("li", NoAttrs, << Tree("a", NoAttrs, << Leaf(<<" ","S","h","o","p"," ">>) >>) >>),
         Tree("li", NoAttrs, << Leaf(<<"W","i","d","g","e","t","s">>) >>) >>) >>),
     Tree("main", NoAttrs, << Tree("img", "src" :> SrcCool, <<>>) >>) >>

\* a blank list item between two others, a main element that starts with text
BodyBlankItem ==
  << Tree("div", NoAttrs, << Tree("img", NoAttrs, <<>>) >>),
     Tree("ol", Breadcrumb, <<
       Tree("li", NoAttrs, << Tree("a", "href" :> <<"/">>, << Leaf(<<"H","o","m","e">>) >>) >>),
       Tree("li", NoAttrs, << Leaf(<<" ">>) >>),
       Tree("li", NoAttrs, << Tree("span", NoAttrs, << Leaf(<<"W">>) >>) >>) >>),
     Tree("main", NoAttrs, << Leaf(<<" ","i","n","t","r","o"," ">>), Tree("p", NoAttrs, << Leaf(<<"x">>) >>) >>) >>

\* no breadcrumb, a main element with text only, an image that has alt text
\* and three that have none
BodyTextMain ==
  << Tree("main", NoAttrs, << Leaf(<<"o","n","l","y">>) >>),
     Tree("figure", NoAttrs, << Leaf(<<" ","A"," ","c","a","t"," ">>), Tree("img", "src" :> SrcCamel, <<>>) >>),
     Tree("div", NoAttrs, << Tree("img", "src" :> SrcCool, <<>>) >>),
     Tree("div", NoAttrs, << Tree("img", NoAttrs, <<>>) >>),
     Tree("img", ("alt" :> <<"k">>) @@ ("src" :> SrcCool), <<>>) >>

\* a top-level heading, a breadcrumb container without list items
BodyHeading ==
  << Tree("h1", NoAttrs, << Leaf(<<"T","o","p">>) >>),
     Tree("ul", Breadcrumb, <<>>),
     Tree("main", NoAttrs, << Tree("p", NoAttrs, << Tree("img", "src" :> SrcSlash, <<>>) >>) >>) >>

\* only blank list items in the first breadcrumb container, no main element
BodyBlankOnly ==
  << Tree("ul", Breadcrumb, << Tree("li", NoAttrs, << Leaf(<<" ">>) >>), Tree("li", NoAttrs, <<>>) >>),
     Tree("ul", Breadcrumb, << Tree("li", NoAttrs, << Leaf(<<"S">>) >>) >>),
     Tree("div", NoAttrs, << Tree("img", "src" :> SrcDot, <<>>) >>) >>

\* an image that is a child of the body, next to the main element
BodyImage ==
  << Tree("img", "src" :> SrcCamel, <<>>),
     Tree("ul", Breadcrumb, << Tree("li", NoAttrs, << Leaf(<<"X">>) >>) >>),
     Tree("main", NoAttrs, << Tree("p", NoAttrs, <<>>) >>) >>

\* a list item that holds the main element
BodyItemMain ==
  << Tree("ul", Breadcrumb, <<
       Tree("li", NoAttrs, <<
         Tree("main", NoAttrs, << Tree("p", NoAttrs, << Tree("img", "alt" :> <<>>, <<>>) >>) >>) >>) >>) >>

Bodies == { BodyExample, BodyBlankItem, BodyTextMain, BodyHeading, BodyBlankOnly,
            BodyImage, BodyItemMain }

MetaViewport == Tree("meta", ("name" :> "viewport") @@ ("content" :> <<"w">>), <<>>)
MetaDescription == Tree("meta", ("name" :> "description") @@ ("content" :> <<"d">>), <<>>)

\* what a head element holds besides the title: meta tags, or an image that
\* a script of the page put there
HeadRests == { <<>>, <<MetaViewport>>, << MetaDescription, Tree("img", NoAttrs, <<>>) >> }

TitleElement(t) == IF t = <<>> THEN <<>> ELSE << Tree("title", NoAttrs, << Leaf(t) >>) >>

\* the documents with a head element and the documents without one
StartingDocuments ==
  { Flatten(Tree("html", NoAttrs,
                 << Tree("head", NoAttrs, TitleElement(t) \o h), Tree("body", NoAttrs, b) >>), 0)
      : t \in Titles, h \in HeadRests, b \in Bodies }
  \cup
  { Flatten(Tree("html", NoAttrs, << Tree("body", NoAttrs, TitleElement(t) \o b) >>), 0)
      : t \in Titles, b \in Bodies }

\* -------------------------------------------------------------- the machine
\* doc       the document
\* doc0      the document at the start
\* runs      how many times each pass was called
\* fault     the last call ended in a TypeError
\* reordered a pass was called after one that follows it in the listener's
\*           order alt, breadcrumb, heading
VARIABLES doc, doc0, runs, fault, reordered
vars == <<doc, doc0, runs, fault, reordered>>

Passes == { "alt", "breadcrumb", "heading", "meta" }

Init ==
  /\ doc \in StartingDocuments
  /\ doc0 = doc
  /\ runs = [ p \in Passes |-> 0 ]
  /\ fault = FALSE
  /\ reordered = FALSE

\* a call of the pass p is counted
Called(p) ==
  /\ runs["alt"] + runs["breadcrumb"] + runs["heading"] + runs["meta"] < MaxCalls
  /\ runs' = [ runs EXCEPT ![p] = @ + 1 ]
  /\ UNCHANGED doc0

RunAlt ==
  /\ Called("alt")
  /\ reordered' = (reordered \/ runs["breadcrumb"] > 0 \/ runs["heading"] > 0)
  /\ doc' = addAltTextToImages(doc)
  /\ fault' = FALSE

RunBreadcrumb ==
  /\ Called("breadcrumb")
  /\ reordered' = (reordered \/ runs["heading"] > 0)
  /\ doc' = addBreadcrumbStructuredData(doc).doc
  /\ fault' = addBreadcrumbStructuredData(doc).fault

RunHeading ==
  /\ Called("heading")
  /\ UNCHANGED reordered
  /\ doc' = improveHeadingStructure(doc)
  /\ fault' = FALSE

RunMeta ==
  /\ Called("meta")
  /\ UNCHANGED reordered
  /\ doc' = addMissingMetaTags(doc).doc
  /\ fault' = addMissingMetaTags(doc).fault

\* The DOMContentLoaded listener: it is called once, before any other call,
\* and calls the four passes in the fixed order; a TypeError in a pass ends it.
DOMContentLoaded ==
  /\ \A p \in Passes : runs[p] = 0
  /\ LET a == addAltTextToImages(doc)
         b == addBreadcrumbStructuredData(a)
         h == improveHeadingStructure(b.doc)
         m == addMissingMetaTags(h)
     IN  IF b.fault
         THEN /\ doc' = b.doc
              /\ fault' = TRUE
              /\ runs' = [ p \in Passes |-> IF p \in {"alt", "breadcrumb"} THEN 1 ELSE 0 ]
         ELSE /\ doc' = m.doc
              /\ fault' = m.fault
              /\ runs' = [ p \in Passes |-> 1 ]
  /\ UNCHANGED <<doc0, reordered>>

Next == RunAlt \/ RunBreadcrumb \/ RunHeading \/ RunMeta \/ DOMContentLoaded

Spec == Init /\ [][Next]_vars

\* ================================================================= claims
\* the step is one call of the pass p
Step(p) == runs' = [ runs EXCEPT ![p] = @ + 1 ]

Images(d) == Range(AllWithTag(d, DocumentOrder(d), "img"))

\* the first non-empty string of a sequence of strings, '' when there is none
RECURSIVE FirstNonEmpty(_)
FirstNonEmpty(cs) ==
  IF cs = <<>> THEN <<>>
  ELSE IF Head(cs) # <<>> THEN Head(cs) ELSE FirstNonEmpty(Tail(cs))

\* the three sources of an alt text, in the order of precedence
AltSources(d, img) ==
  << IF parentElement(d, img) = 0 THEN <<>> ELSE trim(textContent(d, parentElement(d, img))),
     FilenameLabel(BeforeFirst(AfterLast(Property(d[img], "src"), "/"), ".")),
     IF title(d) = <<>> THEN <<>> ELSE ImageRelatedTo \o title(d) >>

\* C2: after a run of addAltTextToImages every image that had no alt
\* attribute has alt equal to the first non-empty of parent text, file name
\* label and 'Image related to ' + title, and has no alt attribute exactly
\* when the three are empty.
C2_AltPrecedence ==
  [][
      Step("alt") =>
        \A img \in Images(doc) :
          ~hasAttribute(doc[img], "alt") =>
            LET want == FirstNonEmpty(AltSources(doc, img))
            IN  /\ hasAttribute(doc'[img], "alt") <=> want # <<>>
                /\ want # <<>> => doc'[img].attrs["alt"] = want
  ]_vars

\* a run gave one image its parent's text, one its file name label
\* "My Cool Image", and left one without alt
C2_Witness ==
  /\ runs["alt"] >= 1
  /\ \E i, j, k \in Images(doc0) :
       /\ ~hasAttribute(doc0[i], "alt") /\ ~hasAttribute(doc0[j], "alt")
       /\ ~hasAttribute(doc0[k], "alt")
       /\ Property(doc[i], "alt") = <<"A"," ","c","a","t">>
       /\ Property(doc[j], "alt") = <<"M","y"," ","C","o","o","l"," ","I","m","a","g","e">>
       /\ ~hasAttribute(doc[k], "alt")

\* the pass has run once and nothing else has
OnlyAltOnce == runs = [ p \in Passes |-> IF p = "alt" THEN 1 ELSE 0 ]

\* C7: a second run of addAltTextToImages directly after the first leaves
\* the document as it is, and a run on the document that any run has left
\* changes nothing.
C7_AltIdempotent ==
  [][ /\ (OnlyAltOnce /\ Step("alt")) => doc' = doc
      /\ Step("alt") => addAltTextToImages(doc') = doc' ]_vars

\* two runs in a row, on a document where the first run set an alt attribute
\* and left another image without one
C7_Witness ==
  /\ runs["alt"] = 2
  /\ \A p \in Passes \ {"alt"} : runs[p] = 0
  /\ \E i, k \in Images(doc) :
       /\ ~hasAttribute(doc0[i], "alt") /\ hasAttribute(doc[i], "alt")
       /\ ~hasAttribute(doc[k], "alt")

\* the children of n that the starting document already had
OldKids(d, n) == LET Old(k) == k <= Len(doc0) IN SelectSeq(d[n].kids, Old)

\* C8: every node of the starting document is still in the document with
\* its tag, its text, its attribute values and its place among the nodes of
\* the starting document; only an alt attribute of an image was added, and
\* the new nodes are script, h1 and meta elements and their text.
C8_OnlyAdds ==
  /\ Len(doc) >= Len(doc0)
  /\ \A n \in 1..Len(doc0) :
       /\ n \in Range(DocumentOrder(doc))
       /\ doc[n].tag = doc0[n].tag
       /\ doc[n].data = doc0[n].data
       /\ \A a \in DOMAIN doc0[n].attrs :
            a \in DOMAIN doc[n].attrs /\ doc[n].attrs[a] = doc0[n].attrs[a]
       /\ \A a \in DOMAIN doc[n].attrs \ DOMAIN doc0[n].attrs :
            a = "alt" /\ doc[n].tag = "img"
       /\ OldKids(doc, n) = doc0[n].kids
  /\ \A n \in (Len(doc0) + 1)..Len(doc) :
       /\ doc[n].tag \in {"script", "h1", "meta", "#text"}
       /\ doc[n].tag = "#text" => doc[parentElement(doc, n)].tag \in {"script", "h1"}

\* every pass has run, nodes were added, an image got an alt attribute and
\* the image that had alt "k" is in the document
C8_Witness ==
  /\ \A p \in Passes : runs[p] >= 1
  /\ Len(doc) > Len(doc0)
  /\ \E i, k \in Images(doc0) :
       /\ ~hasAttribute(doc0[i], "alt") /\ hasAttribute(doc[i], "alt")
       /\ hasAttribute(doc0[k], "alt") /\ Property(doc[k], "alt") = <<"k">>

\* ---------------------------------------------------------------- breadcrumb
\* the step is a call of the breadcrumb pass that appends a script element
ScriptAppended == Step("breadcrumb") /\ Len(doc') > Len(doc)
\* the script element it appends
NewScript == Len(doc) + 1

\* the script elements that are children of the head element
HeadScripts(d) ==
  IF head(d) = 0 THEN {} ELSE { n \in Range(d[head(d)].kids) : d[n].tag = "script" }

HasLink(d, item) == \E n \in Range(Descendants(d, item)) : d[n].tag = "a"
Blank(d, item) == ~HasLink(d, item) /\ trim(textContent(d, item)) = <<>>
\* the 1-based indexes of the list items that are not blank
Kept(d) == { i \in 1..Len(BreadcrumbItems(d)) : ~Blank(d, BreadcrumbItems(d)[i]) }

\* C3: the records are in the order of the list items and the position of a
\* record is the 1-based index of its list item among all list items of the
\* container, blank items included.
C3_PositionIsIndex ==
  [][
      ScriptAppended =>
        LET recs == doc'[NewScript].json
        IN  /\ Len(recs) = Cardinality(Kept(doc))
            /\ \A j \in 1..Len(recs) :
                 /\ recs[j].position \in Kept(doc)
                 /\ Cardinality({ i \in Kept(doc) : i < recs[j].position }) = j - 1
  ]_vars

\* a blank second item: the records are numbered 1 and 3
C3_Witness ==
  /\ Len(BreadcrumbItems(doc0)) = 3 /\ Kept(doc0) = {1, 3}
  /\ \E s \in HeadScripts(doc) :
       [ j \in 1..Len(doc[s].json) |-> doc[s].json[j].position ] = <<1, 3>>

\* how many times sep occurs in s
Occurrences(s, sep) ==
  Cardinality({ i \in 1..(Len(s) - Len(sep) + 1) : SubSeq(s, i, i + Len(sep) - 1) = sep })

\* the list items as the example writes them
ItemsWritten(d) ==
  [ i \in 1..Len(BreadcrumbItems(d)) |->
      LET it == BreadcrumbItems(d)[i]
      IN  IF HasLink(d, it)
          THEN <<"link", trim(textContent(d, FirstWithTag(d, Descendants(d, it), "a")))>>
          ELSE <<"text", trim(textContent(d, it))>> ]

\* C10: the record of a list item with a hyperlink has the link's trimmed text
\* as name and the link's URL as item; the record of a list item with text
\* only has that trimmed text as name and no item; the serialised text has
\* one "item" key per hyperlink; links Home and Shop and text Widgets give
\* three records, positions 1, 2, 3, with these names, the first two with item.
C10_ItemOnlyForLinks ==
  [][
      ScriptAppended =>
        LET recs == doc'[NewScript].json
            items == BreadcrumbItems(doc)
        IN  /\ \A j \in 1..Len(recs) :
                 LET it == items[recs[j].position]
                     link == FirstWithTag(doc, Descendants(doc, it), "a")
                 IN  IF HasLink(doc, it)
                     THEN /\ "item" \in DOMAIN recs[j]
                          /\ recs[j].item = Property(doc[link], "href")
                          /\ recs[j].name = trim(textContent(doc, link))
                     ELSE /\ "item" \notin DOMAIN recs[j]
                          /\ recs[j].name = trim(textContent(doc, it))
            /\ Occurrences(textContent(doc', NewScript), JsonItem)
                 = Cardinality({ i \in Kept(doc) : HasLink(doc, items[i]) })
            /\ ItemsWritten(doc) = << <<"link", <<"H","o","m","e">> >>,
                                       <<"link", <<"S","h","o","p">> >>,
                                       <<"text", <<"W","i","d","g","e","t","s">> >> >>
                 => /\ Len(recs) = 3
                    /\ \A j \in 1..3 : recs[j].position = j
                    /\ recs[1].name = <<"H","o","m","e">>
                    /\ recs[2].name = <<"S","h","o","p">>
                    /\ recs[3].name = <<"W","i","d","g","e","t","s">>
                    /\ { j \in 1..3 : "item" \in DOMAIN recs[j] } = {1, 2}
  ]_vars

\* the example: the first record has item '/', the third has no item
C10_Witness ==
  \E s \in HeadScripts(doc) :
    /\ Len(doc[s].json) = 3
    /\ "item" \in DOMAIN doc[s].json[1]
    /\ doc[s].json[1].item = <<"/">>
    /\ doc[s].json[2].name = <<"S","h","o","p">>
    /\ "item" \notin DOMAIN doc[s].json[3]

\* C4: a run of addBreadcrumbStructuredData appends exactly one script
\* element to head when at least one record results and nothing otherwise,
\* so that k runs with a record each leave k script elements.
C4_OneScriptPerRun ==
  [][
      Step("breadcrumb") =>
        /\ Cardinality(HeadScripts(doc')) =
             Cardinality(HeadScripts(doc)) + (IF itemListElement(doc) # <<>> THEN 1 ELSE 0)
        /\ itemListElement(doc) = <<>> => doc' = doc
  ]_vars

\* ---------------------------------------------------------------------- meta
MetasNamed(d, name) ==
  { n \in Range(DocumentOrder(d)) :
      d[n].tag = "meta" /\ hasAttribute(d[n], "name") /\ d[n].attrs["name"] = name }

\* the meta elements with the name that are under the head element
HeadMetasNamed(d, name) ==
  IF head(d) = 0 THEN {} ELSE MetasNamed(d, name) \cap Range(Descendants(d, head(d)))

\* C6: over the runs of addMissingMetaTags at most one viewport and at most
\* one description meta tag is created, none when the head already has one, and
\* a meta tag of the starting document keeps its content.
C6_MetaAtMostOnce ==
  \A name \in {"viewport", "description"} :
    /\ Cardinality(MetasNamed(doc, name) \ MetasNamed(doc0, name)) <= 1
    /\ HeadMetasNamed(doc0, name) # {} => MetasNamed(doc, name) = MetasNamed(doc0, name)
    /\ \A n \in MetasNamed(doc0, name) : doc[n] = doc0[n]

\* after two runs: the viewport tag of the starting document is the only one
\* and has its content, and one description tag was created
C6_Witness ==
  /\ runs["meta"] >= 2
  /\ \E v \in MetasNamed(doc0, "viewport") :
       MetasNamed(doc, "viewport") = {v} /\ doc[v].attrs["content"] = <<"w">>
  /\ MetasNamed(doc0, "description") = {}
  /\ Cardinality(MetasNamed(doc, "description")) = 1

\* C9: no call of a pass ends in a fault.
C9_NoFault == ~fault

\* ------------------------------------------------------------------- heading
H1s(d) == { n \in Range(DocumentOrder(d)) : d[n].tag = "h1" }
Main(d) == FirstWithTag(d, DocumentOrder(d), "main")

\* p is the part of t before the first ' - ', t itself when t has none
SeparatorAt(t, i) == i + 2 <= Len(t) /\ SubSeq(t, i, i + 2) = <<" ", "-", " ">>
IsFirstPart(p, t) ==
  \E n \in 0..Len(t) :
    /\ p = SubSeq(t, 1, n)
    /\ \A i \in 1..n : ~SeparatorAt(t, i)
    /\ n = Len(t) \/ SeparatorAt(t, n + 1)

\* the step inserts exactly one
\* element, a top-level heading with the first part of the title as text,
\* as the child number k of the main element
HeadingInsertedAt(k) ==
  /\ Len(doc') > Len(doc)
  /\ doc'[Len(doc) + 1].tag = "h1"
  /\ H1s(doc') = {Len(doc) + 1}
  /\ IsFirstPart(textContent(doc', Len(doc) + 1), title(doc))
  /\ doc'[Main(doc)].kids =
       SubSeq(doc[Main(doc)].kids, 1, k - 1) \o <<Len(doc) + 1>>
       \o SubSeq(doc[Main(doc)].kids, k, Len(doc[Main(doc)].kids))
  /\ \A n \in 1..Len(doc) : n # Main(doc) => doc'[n] = doc[n]

\* C5 as stated: the heading is inserted as the first child of main exactly
\* when there is no top-level heading, the title is not empty and main has a
\* child; otherwise the pass changes nothing.
C5_FirstChild ==
  [][
      Step("heading") =>
        IF H1s(doc) = {} /\ title(doc) # <<>> /\ Main(doc) # 0
           /\ Len(doc[Main(doc)].kids) >= 1
        THEN HeadingInsertedAt(1)
        ELSE doc' = doc
  ]_vars

\* the index of the first child of n that is an element, 0 when there is none
FirstElementIndex(d, n) ==
  LET P == { i \in 1..Len(d[n].kids) : d[d[n].kids[i]].tag # "#text" }
  IN  IF P = {} THEN 0 ELSE CHOOSE i \in P : \A j \in P : i <= j

\* C5 amended: the heading is inserted directly before the first element
\* child of main, after the text nodes that precede it, exactly when there
\* is no top-level heading, the title is not empty and main has an element
\* child; otherwise the pass changes nothing.
C5_FirstElementChild ==
  [][
      Step("heading") =>
        IF H1s(doc) = {} /\ title(doc) # <<>> /\ Main(doc) # 0
           /\ FirstElementIndex(doc, Main(doc)) # 0
        THEN HeadingInsertedAt(FirstElementIndex(doc, Main(doc)))
        ELSE doc' = doc
  ]_vars

\* the heading "Buy" was inserted after the text that main starts with
C5_Witness ==
  /\ runs["heading"] >= 1
  /\ title(doc0) = <<"B","u","y"," ","-"," ","A","c","m","e"," ","-"," ","C","o">>
  /\ \E h \in H1s(doc) \ H1s(doc0) :
       /\ textContent(doc, h) = <<"B","u","y">>
       /\ Len(doc[Main(doc)].kids) >= 2
       /\ doc[Main(doc)].kids[2] = h
       /\ doc[doc[Main(doc)].kids[1]].tag = "#text"

\* --------------------------------------------------------------------- order
\* the subtree of n without node ids
RECURSIVE Nested(_, _)
Nested(d, n) ==
  [ tag |-> d[n].tag, attrs |-> d[n].attrs, data |-> d[n].data, json |-> d[n].json,
    kids |-> [ i \in 1..Len(d[n].kids) |-> Nested(d, d[n].kids[i]) ] ]

\* the document without node ids and without the order of the nodes that
\* were appended to head
Canonical(d) ==
  IF head(d) = 0 THEN << Nested(d, 1), {} >>
  ELSE << Nested([ d EXCEPT ![head(d)].kids = OldKids(d, head(d)) ], 1),
          { Nested(d, k) : k \in { k \in Range(d[head(d)].kids) : k > Len(doc0) } } >>

\* the document after the four passes in the order of the listener, each
\* called on its own
FixedOrder(d) ==
  addMissingMetaTags(
    improveHeadingStructure(
      addBreadcrumbStructuredData(addAltTextToImages(d)).doc)).doc

EachPassOnce == \A p \in Passes : runs[p] = 1

\* C1 as stated: the four passes, each run once in any order, leave the
\* document that the order alt, breadcrumb, heading, meta leaves, apart from
\* the order of the nodes appended to head.
C1_AnyOrder == EachPassOnce => Canonical(doc) = Canonical(FixedOrder(doc0))

\* C1 amended: the same, for the orders that call alt before breadcrumb and
\* heading, and breadcrumb before heading; the meta pass is called anywhere.
C1_MetaAnywhere ==
  (EachPassOnce /\ ~reordered) => Canonical(doc) = Canonical(FixedOrder(doc0))

\* every pass has run once, in one of these orders, and has added something
C1_Witness ==
  /\ EachPassOnce /\ ~reordered /\ ~fault
  /\ H1s(doc) # H1s(doc0)
  /\ HeadScripts(doc) # {}
  /\ MetasNamed(doc, "description") # MetasNamed(doc0, "description")
  /\ \E i \in Images(doc0) : ~hasAttribute(doc0[i], "alt") /\ hasAttribute(doc[i], "alt")

====
